---- MODULE Spec2Model ----
(* BudgetByte (src/app.py): a Streamlit budgeting application.  Every user  *)
(* interaction reruns the script once with at most one button pressed; one  *)
(* action below is one such run.  The state is st.session_state plus the    *)
(* values of the sidebar widgets and the messages the run displayed.        *)
EXTENDS Integers, Sequences, FiniteSets, TLC

(***************************************************************************)
(* Bounds and input domains                                                *)
(***************************************************************************)

\* A run that hands out ids starts only while next_id <= MaxId (the counter
\* itself is unbounded).
MaxId == 3

\* The (year, month) pairs the sidebar filters are moved between: a December
\* (its previous month is in the same year) and the January after it (its
\* previous month is the December of the year before).
Windows == { <<2024, 12>>, <<2025, 1>> }

\* What the user types into the expense fields (Add and Edit share the fields).
\* The number inputs have min_value=0.0; the text input may be left empty.
FormA == [category |-> "Rent", forecast |-> 1, actual |-> 2, comments |-> ""]
FormB == [category |-> "rent", forecast |-> 2, actual |-> 1, comments |-> "n"]
EmptyCategoryForm == [category |-> "", forecast |-> 1, actual |-> 1, comments |-> ""]

UiForms == { FormA, FormB, EmptyCategoryForm }

\* Arguments the widgets cannot deliver but the handlers guard against.
NegativeForms ==
    { [category |-> "Rent", forecast |-> -1, actual |-> 1,  comments |-> ""],
      [category |-> "Rent", forecast |-> 1,  actual |-> -1, comments |-> ""] }

CoreForms == { FormA, EmptyCategoryForm } \cup NegativeForms

\* What the user types into the income form.
IncomeA == [income |-> 5, extra_income |-> 1]
IncomeB == [income |-> 7, extra_income |-> 0]

UiIncomeForms == { IncomeA }

NegativeIncomeForms ==
    { [income |-> -1, extra_income |-> 0], [income |-> 5, extra_income |-> -1] }

CoreIncomeForms == UiIncomeForms \cup NegativeIncomeForms

\* The inputs of the specification that follows the income table: both income
\* forms, one expense form.
LedgerIncomeForms == { IncomeA, IncomeB }
LedgerExpenseForms == { FormA, EmptyCategoryForm }

\* The inputs of the specification that applies the budget analysis: up to
\* MaxRows rows of whole amounts around forecast * 0.8 and forecast * 1.2, with
\* totals on both sides of the savings ratios 0.1 and 0.2 of the incomes.
MaxRows == 2
AnalyzeCategories == { "Rent", "food" }
AnalyzeForecasts == { 0, 100 }
AnalyzeActuals == { 0, 80, 90, 120, 150 }
AnalyzeIncomes == { 0, 100, 200 }

\* The new_expense arguments of analyze_budget.
Candidates ==
    [ category : { "rent", "Food", "Gas" }, actual : { 80, 90 } ]

VARIABLES
    all_expenses,    \* st.session_state.all_expenses: the full ledger, rows in order
    all_income,      \* st.session_state.all_income: the income table, rows in order
    next_id,         \* st.session_state.next_id
    current_data,    \* st.session_state.current_data: the current view
    selected_year,   \* st.session_state.selected_year
    selected_month,  \* st.session_state.selected_month
    income,          \* st.session_state.income
    extra_income,    \* st.session_state.extra_income
    year,            \* value of the sidebar "Year" input
    month_num,       \* value of the sidebar "Month" select box, as a number
    msg              \* st.error / st.warning / st.success calls of the last run

vars == << all_expenses, all_income, next_id, current_data, selected_year,
           selected_month, income, extra_income, year, month_num, msg >>

data == << all_expenses, all_income, next_id, current_data, selected_year,
           selected_month, income, extra_income >>

(***************************************************************************)
(* Helpers                                                                 *)
(***************************************************************************)

\* str.lower on the category strings in use.
Lower(s) == IF s = "Rent" THEN "rent" ELSE IF s = "Food" THEN "food" ELSE s

\* One displayed message: its kind, its text, the number formatted into it
\* and, for st.info, the lines joined into it.
Msg(kind, text) == [kind |-> kind, text |-> text, n |-> 0, lines |-> << >>]

\* f"Copied {len(template_expenses)} expenses from previous month."
CopiedMsg(n) ==
    [kind |-> "success", text |-> "Copied expenses from previous month.",
     n |-> n, lines |-> << >>]

Ids(df) == { df[i].id : i \in 1..Len(df) }

\* all_expenses[(year == y) & (month == m)]: a boolean mask keeps the row order.
ExpensesFor(df, y, m) ==
    LET Match(r) == r.year = y /\ r.month = m
    IN  SelectSeq(df, Match)

\* load_income(year, month)
\* load_income without the year and month filter: the first row of the table.
load_income_FirstRow(y, m) ==
    IF all_income # << >>
    THEN << all_income[1].income, all_income[1].extra_income >>
    ELSE << 0, 0 >>

load_income(y, m) ==
    LET Match(r) == r.year = y /\ r.month = m
        row == SelectSeq(all_income, Match)
    IN  IF all_income # << >> /\ row # << >>
        THEN << row[1].income, row[1].extra_income >>
        ELSE << 0, 0 >>

\* save_income without the mask.any() branch: every save adds a row.
save_income_AlwaysAppend(y, m, inc, extra) ==
    Append(all_income,
           [year |-> y, month |-> m, income |-> inc, extra_income |-> extra])

\* save_income(year, month, income, extra_income): the table afterwards.
save_income(y, m, inc, extra) ==
    LET mask(r) == r.year = y /\ r.month = m
    IN  IF \E i \in 1..Len(all_income) : mask(all_income[i])
        THEN [ i \in 1..Len(all_income) |->
                 IF mask(all_income[i])
                 THEN [all_income[i] EXCEPT !.income = inc, !.extra_income = extra]
                 ELSE all_income[i] ]
        ELSE Append(all_income,
                    [year |-> y, month |-> m, income |-> inc, extra_income |-> extra])

(***************************************************************************)
(* Initial state: session-state initialisation, widgets at their defaults  *)
(***************************************************************************)

Init ==
    /\ all_expenses = << >>
    /\ all_income = << >>
    /\ next_id = 1
    /\ current_data = << >>
    /\ \E w \in Windows : selected_year = w[1] /\ selected_month = w[2]
    /\ income = 0
    /\ extra_income = 0
    /\ year = selected_year
    /\ month_num = selected_month
    /\ msg = << >>

(***************************************************************************)
(* Sidebar                                                                 *)
(***************************************************************************)

\* The user moves the Year / Month filters; the rerun presses no button.
SidebarChange ==
    /\ \E w \in Windows :
          /\ << w[1], w[2] >> # << year, month_num >>
          /\ year' = w[1]
          /\ month_num' = w[2]
    /\ msg' = << >>
    /\ UNCHANGED data

\* LoadData without the reload of the income (line 141).
LoadData_KeepsIncome ==
    /\ selected_year' = year
    /\ selected_month' = month_num
    /\ current_data' = ExpensesFor(all_expenses, year, month_num)
    /\ msg' = << >>
    /\ UNCHANGED << all_expenses, all_income, next_id, income, extra_income,
                    year, month_num >>

\* LoadData with the filtered frame stored as the ledger too.
LoadData_DropsOthers ==
    /\ selected_year' = year
    /\ selected_month' = month_num
    /\ current_data' = ExpensesFor(all_expenses, year, month_num)
    /\ all_expenses' = ExpensesFor(all_expenses, year, month_num)
    /\ income' = load_income(year, month_num)[1]
    /\ extra_income' = load_income(year, month_num)[2]
    /\ msg' = << >>
    /\ UNCHANGED << all_income, next_id, year, month_num >>

\* "Load Data"
LoadData ==
    /\ selected_year' = year
    /\ selected_month' = month_num
    /\ current_data' = ExpensesFor(all_expenses, year, month_num)
    /\ income' = load_income(year, month_num)[1]
    /\ extra_income' = load_income(year, month_num)[2]
    /\ msg' = << >>
    /\ UNCHANGED << all_expenses, all_income, next_id, year, month_num >>

(***************************************************************************)
(* Income form                                                             *)
(***************************************************************************)

\* "Update Income" with the form holding f.
UpdateIncomeH(f) ==
    /\ IF f.income < 0 \/ f.extra_income < 0
       THEN /\ msg' = << Msg("error", "Income values cannot be negative.") >>
            /\ UNCHANGED << all_income, income, extra_income >>
       ELSE /\ all_income' = save_income(selected_year, selected_month,
                                         f.income, f.extra_income)
            /\ income' = f.income
            /\ extra_income' = f.extra_income
            /\ msg' = << Msg("success", "Income updated!") >>
    /\ UNCHANGED << all_expenses, next_id, current_data, selected_year,
                    selected_month, year, month_num >>

UpdateIncome == \E f \in UiIncomeForms : UpdateIncomeH(f)

(***************************************************************************)
(* Expense management                                                      *)
(***************************************************************************)

\* Line 206: a row of the view has the typed category, compared in lower case.
CategoryExists(category) ==
    /\ current_data # << >>
    /\ \E i \in 1..Len(current_data) :
          Lower(current_data[i].category) = Lower(category)

\* new_exp with the id taken from the number of rows in the ledger.
new_exp_RowCount(f) ==
    [ id       |-> Len(all_expenses) + 1,
      year     |-> selected_year,
      month    |-> selected_month,
      category |-> f.category,
      forecast |-> f.forecast,
      actual   |-> f.actual,
      comments |-> f.comments ]

\* new_exp stamped with the year and month of the sidebar.
new_exp_SidebarStamp(f) ==
    [ id       |-> next_id,
      year     |-> year,
      month    |-> month_num,
      category |-> f.category,
      forecast |-> f.forecast,
      actual   |-> f.actual,
      comments |-> f.comments ]

\* Lines 208-216: the new row.
new_exp(f) ==
    [ id       |-> next_id,
      year     |-> selected_year,
      month    |-> selected_month,
      category |-> f.category,
      forecast |-> f.forecast,
      actual   |-> f.actual,
      comments |-> f.comments ]

\* Line 218: the view takes the new row when it is empty or when the sidebar
\* shows the selected window (`or` binds weaker than `and`).
AddGoesToView ==
    current_data = << >> \/ (selected_year = year /\ selected_month = month_num)

\* AddError with a category already in the view refused instead of warned about.
AddError_RejectDuplicate(f) ==
    IF f.category = ""
    THEN << Msg("error", "Category must be filled.") >>
    ELSE IF f.forecast < 0 \/ f.actual < 0
    THEN << Msg("error", "Forecast and Actual cannot be negative.") >>
    ELSE IF CategoryExists(f.category)
    THEN << Msg("error", "Category already exists.") >>
    ELSE << >>

\* AddError without the check of the amounts (line 203).
AddError_NoAmountCheck(f) ==
    IF f.category = ""
    THEN << Msg("error", "Category must be filled.") >>
    ELSE << >>

\* Lines 201-204: the errors of "Add Expense" (none for an accepted form).
AddError(f) ==
    IF f.category = ""
    THEN << Msg("error", "Category must be filled.") >>
    ELSE IF f.forecast < 0 \/ f.actual < 0
    THEN << Msg("error", "Forecast and Actual cannot be negative.") >>
    ELSE << >>

\* "Add Expense" with the fields holding f.
AddExpenseH(f) ==
    /\ IF AddError(f) # << >>
       THEN /\ msg' = AddError(f)
            /\ UNCHANGED << all_expenses, current_data, next_id >>
       ELSE /\ next_id <= MaxId
            /\ all_expenses' = Append(all_expenses, new_exp(f))
            /\ current_data' = IF AddGoesToView
                               THEN Append(current_data, new_exp(f))
                               ELSE current_data
            /\ next_id' = next_id + 1
            /\ msg' = (IF CategoryExists(f.category)
                       THEN << Msg("warning", "Category already exists. Proceeding to add.") >>
                       ELSE << >>)
                      \o << Msg("success", "Expense added!") >>
    /\ UNCHANGED << all_income, selected_year, selected_month, income,
                    extra_income, year, month_num >>

AddExpense == \E f \in UiForms : AddExpenseH(f)

\* df.loc[df["id"] == selected_id, ["category", "forecast", "actual", "comments"]] = [...]
SetFields(df, selected_id, f) ==
    [ i \in 1..Len(df) |->
        IF df[i].id = selected_id
        THEN [df[i] EXCEPT !.category = f.category, !.forecast = f.forecast,
                           !.actual = f.actual, !.comments = f.comments]
        ELSE df[i] ]

\* df[df["id"] != selected_id]
DropId(df, selected_id) ==
    LET Keep(r) == r.id # selected_id
    IN  SelectSeq(df, Keep)

\* EditInvalid without the check of the amounts.
EditInvalid_CategoryOnly(f) == f.category = ""

\* Line 240: the check of "Save Changes".
EditInvalid(f) == f.category = "" \/ f.forecast < 0 \/ f.actual < 0

\* EditedLedger with the assignment of line 244 made without the id mask.
EditedLedger_NoMask(selected_id, f) ==
    [ i \in 1..Len(all_expenses) |->
        [all_expenses[i] EXCEPT !.category = f.category, !.forecast = f.forecast,
                                !.actual = f.actual, !.comments = f.comments] ]

\* Line 244: the ledger after a save.
EditedLedger(selected_id, f) == SetFields(all_expenses, selected_id, f)

\* EditedView with line 245 left out.
EditedView_Stale(selected_id, f) == current_data

\* Line 245: the view after a save.
EditedView(selected_id, f) == SetFields(current_data, selected_id, f)

\* "Save Changes" with selected_id chosen and the edit fields holding f.
SaveChangesH(selected_id, f) ==
    /\ IF EditInvalid(f)
       THEN /\ msg' = << Msg("error", "Category cannot be empty, and values cannot be negative.") >>
            /\ UNCHANGED << all_expenses, current_data >>
       ELSE /\ all_expenses' = EditedLedger(selected_id, f)
            /\ current_data' = EditedView(selected_id, f)
            /\ msg' = << Msg("success", "Expense updated!") >>
    /\ UNCHANGED << all_income, next_id, selected_year, selected_month, income,
                    extra_income, year, month_num >>

\* Lines 224-232: the edit block is shown for a non-empty view and the select
\* box offers the ids of the view.
SaveChanges ==
    /\ current_data # << >>
    /\ \E selected_id \in Ids(current_data), f \in UiForms :
          SaveChangesH(selected_id, f)

\* Line 249: the ledger after a delete.
DeletedLedger(selected_id) == DropId(all_expenses, selected_id)

\* DeletedView with line 250 left out.
DeletedView_Stale(selected_id) == current_data

\* Line 250: the view after a delete.
DeletedView(selected_id) == DropId(current_data, selected_id)

\* "Delete Expense" with selected_id chosen.
DeleteExpenseH(selected_id) ==
    /\ all_expenses' = DeletedLedger(selected_id)
    /\ current_data' = DeletedView(selected_id)
    /\ msg' = << Msg("success", "Expense deleted!") >>
    /\ UNCHANGED << all_income, next_id, selected_year, selected_month, income,
                    extra_income, year, month_num >>

DeleteExpense ==
    /\ current_data # << >>
    /\ \E selected_id \in Ids(current_data) : DeleteExpenseH(selected_id)

(***************************************************************************)
(* Use Previous Month Template                                             *)
(***************************************************************************)

\* Line 300: (prev_month, prev_year).
PrevMonth ==
    IF selected_month = 1
    THEN << 12, selected_year - 1 >>
    ELSE << selected_month - 1, selected_year >>

\* Lines 301-304.
template_expenses == ExpensesFor(all_expenses, PrevMonth[2], PrevMonth[1])

\* CopiedRow with line 308 left out: the copy keeps the id of its source.
CopiedRow_KeepId(exp, nid) ==
    [exp EXCEPT !.year = selected_year, !.month = selected_month]

\* Lines 307-310: the copy of one template row.
CopiedRow(exp, nid) ==
    [exp EXCEPT !.id = nid, !.year = selected_year, !.month = selected_month]

\* Lines 306-313: the loop over the template rows, from row i on; st holds
\* all_expenses, current_data and next_id as the loop has left them.
RECURSIVE CopyLoop(_, _, _)
CopyLoop(template, i, st) ==
    IF i > Len(template)
    THEN st
    ELSE LET row == CopiedRow(template[i], st.next_id)
         IN  CopyLoop(template, i + 1,
                      [ all_expenses |-> Append(st.all_expenses, row),
                        current_data |-> Append(st.current_data, row),
                        next_id      |-> st.next_id + 1 ])

UsePreviousMonthTemplate ==
    /\ IF template_expenses # << >>
       THEN LET st == CopyLoop(template_expenses, 1,
                               [ all_expenses |-> all_expenses,
                                 current_data |-> current_data,
                                 next_id      |-> next_id ])
            IN  /\ next_id <= MaxId
                /\ all_expenses' = st.all_expenses
                /\ current_data' = st.current_data
                /\ next_id' = st.next_id
                /\ msg' = << CopiedMsg(Len(template_expenses)) >>
       ELSE /\ msg' = << Msg("warning", "No expenses found for previous month.") >>
            /\ UNCHANGED << all_expenses, current_data, next_id >>
    /\ UNCHANGED << all_income, selected_year, selected_month, income,
                    extra_income, year, month_num >>

(***************************************************************************)
(* Budget analysis                                                         *)
(***************************************************************************)

\* expenses[column].sum() and sum(list)
RECURSIVE SumActual(_)
SumActual(expenses) ==
    IF expenses = << >> THEN 0
    ELSE expenses[1].actual + SumActual(Tail(expenses))

RECURSIVE SumForecast(_)
SumForecast(expenses) ==
    IF expenses = << >> THEN 0
    ELSE expenses[1].forecast + SumForecast(Tail(expenses))

\* The lines of the insights.
OverspendingLine(category) == [kind |-> "overspending", category |-> category, score |-> 0]
UnderBudgetLine(category) == [kind |-> "under_budget", category |-> category, score |-> 0]
AnomalyLine(category) == [kind |-> "anomaly", category |-> category, score |-> 0]
ScoreLine(score) == [kind |-> "score", category |-> "", score |-> score]

\* Line 87 with <= for <.
IsUnderBudget_Inclusive(exp) == 5 * exp.actual <= 4 * exp.forecast

\* Lines 85 and 87: actual > forecast * 1.2 and actual < forecast * 0.8, on
\* whole amounts (in fifths).
IsOverspending(exp) == 5 * exp.actual > 6 * exp.forecast
IsUnderBudget(exp) == 5 * exp.actual < 4 * exp.forecast

\* suggest_budget_adjustments(expenses): the loop from the first row on.
RECURSIVE suggest_budget_adjustments(_)
suggest_budget_adjustments(expenses) ==
    IF expenses = << >> THEN << >>
    ELSE LET exp == expenses[1]
         IN  (IF IsOverspending(exp) THEN << OverspendingLine(exp.category) >>
              ELSE IF IsUnderBudget(exp) THEN << UnderBudgetLine(exp.category) >>
              ELSE << >>)
             \o suggest_budget_adjustments(Tail(expenses))

\* Line 93 without str.lower.
PastSpending_CaseSensitive(expenses, new_expense) ==
    LET SameCategory(r) == r.category = new_expense.category
    IN  SelectSeq(expenses, SameCategory)

\* Line 93: the rows whose category is new_expense's, in lower case.
PastSpending(expenses, new_expense) ==
    LET SameCategory(r) == Lower(r.category) = Lower(new_expense.category)
    IN  SelectSeq(expenses, SameCategory)

\* Lines 96-97: new_expense["actual"] > avg_spending * 1.5 with avg_spending
\* = sum / len, on whole amounts (times 2 * len).
AboveAverage(past, new_expense) ==
    2 * Len(past) * new_expense.actual > 3 * SumActual(past)

\* detect_unusual_spending(expenses, new_expense): << >> for None.
detect_unusual_spending(expenses, new_expense) ==
    LET past == PastSpending(expenses, new_expense)
    IN  IF past = << >> THEN << >>
        ELSE IF AboveAverage(past, new_expense)
        THEN << AnomalyLine(new_expense.category) >>
        ELSE << >>

\* Line 105: savings_ratio as << numerator, denominator >>, denominator > 0.
SavingsRatio(total_actual, total_income) ==
    IF total_income > 0
    THEN << total_income - total_actual, total_income >>
    ELSE << 0, 1 >>

\* Line 109 with <= for <.
RatioBelowTenth_Inclusive(ratio) == 10 * ratio[1] <= ratio[2]

\* Lines 109 and 111: savings_ratio < 0.1 and savings_ratio > 0.2.
RatioBelowTenth(ratio) == 10 * ratio[1] < ratio[2]
RatioAboveFifth(ratio) == 5 * ratio[1] > ratio[2]

\* min(score, 100) left out.
Min_NoCap(a, b) == a

Min(a, b) == IF a < b THEN a ELSE b
Max(a, b) == IF a > b THEN a ELSE b

\* calculate_budget_score(expenses, total_income)
calculate_budget_score(expenses, total_income) ==
    LET total_actual == SumActual(expenses)
        total_forecast == SumForecast(expenses)
        overspent == total_actual > total_forecast
        savings_ratio == SavingsRatio(total_actual, total_income)
        score1 == IF overspent THEN 100 - 20 ELSE 100
        score2 == IF RatioBelowTenth(savings_ratio) THEN score1 - 30
                  ELSE IF RatioAboveFifth(savings_ratio) THEN score1 + 10
                  ELSE score1
    IN  Max(0, Min(score2, 100))

\* analyze_budget with the anomaly put in front of the suggestions.
analyze_budget_AnomalyFirst(expenses, total_income, new_expense) ==
    (IF new_expense # << >>
     THEN detect_unusual_spending(expenses, new_expense[1])
     ELSE << >>)
    \o suggest_budget_adjustments(expenses)
    \o << ScoreLine(calculate_budget_score(expenses, total_income)) >>

\* analyze_budget(expenses, total_income, new_expense): new_expense is << >>
\* for None and << c >> for the expense c.
analyze_budget(expenses, total_income, new_expense) ==
    suggest_budget_adjustments(expenses)
    \o (IF new_expense # << >>
        THEN detect_unusual_spending(expenses, new_expense[1])
        ELSE << >>)
    \o << ScoreLine(calculate_budget_score(expenses, total_income)) >>

\* st.info("\n".join(insights))
InfoMsg(insights) == [kind |-> "info", text |-> "insights", n |-> 0, lines |-> insights]

\* st.write(f"Net Actual: ${difference:,.2f}")
NetActualMsg(difference) ==
    [kind |-> "write", text |-> "Net Actual", n |-> difference, lines |-> << >>]

\* "Calculate Net Actual"
CalculateNetActual ==
    /\ msg' = IF current_data # << >>
              THEN LET total_income == income + extra_income
                       total_actual == SumActual(current_data)
                   IN  << NetActualMsg(total_income - total_actual) >>
                       \o (IF total_actual > total_income
                           THEN << Msg("error", "Your total income is not enough. Cut costs.") >>
                           ELSE << >>)
                       \o << InfoMsg(analyze_budget(current_data, total_income, << >>)) >>
              ELSE << >>
    /\ UNCHANGED << data, year, month_num >>

\* analyze_budget(current_data, total_income, new_expense) called with the
\* new expense c; the insights it returns are shown.
AnalyzeNewExpenseH(c) ==
    /\ msg' = << InfoMsg(analyze_budget(current_data, income + extra_income, << c >>)) >>
    /\ UNCHANGED << data, year, month_num >>

AnalyzeNewExpense == \E c \in Candidates : AnalyzeNewExpenseH(c)

(***************************************************************************)
(* The handlers run with any argument (the operations of the ledger store  *)
(* and the income accessor): amounts below zero, ids the select box would  *)
(* not offer.                                                              *)
(***************************************************************************)

IdInputs == 1..(2 * MaxId)

AddExpenseCore == \E f \in CoreForms : AddExpenseH(f)

SaveChangesCore == \E selected_id \in IdInputs, f \in CoreForms : SaveChangesH(selected_id, f)

DeleteExpenseCore == \E selected_id \in IdInputs : DeleteExpenseH(selected_id)

UpdateIncomeCore == \E f \in CoreIncomeForms : UpdateIncomeH(f)

(***************************************************************************)
(* The same runs with both income forms and one expense form.              *)
(***************************************************************************)

UpdateIncomeLedger == \E f \in LedgerIncomeForms : UpdateIncomeH(f)

AddExpenseLedger == \E f \in LedgerExpenseForms : AddExpenseH(f)

SaveChangesLedger ==
    /\ current_data # << >>
    /\ \E selected_id \in Ids(current_data), f \in LedgerExpenseForms :
          SaveChangesH(selected_id, f)

(***************************************************************************)
(* Specifications                                                          *)
(***************************************************************************)

\* The application as the user drives it.
Next ==
    \/ SidebarChange
    \/ LoadData
    \/ UpdateIncome
    \/ AddExpense
    \/ SaveChanges
    \/ DeleteExpense
    \/ CalculateNetActual
    \/ UsePreviousMonthTemplate

Spec == Init /\ [][Next]_vars

\* The handlers as operations called with any argument.
NextCore ==
    \/ SidebarChange
    \/ LoadData
    \/ UpdateIncomeCore
    \/ AddExpenseCore
    \/ SaveChangesCore
    \/ DeleteExpenseCore
    \/ CalculateNetActual
    \/ UsePreviousMonthTemplate

SpecCore == Init /\ [][NextCore]_vars

\* The application as the user drives it, with the inputs that vary the
\* income table.
NextIncome ==
    \/ SidebarChange
    \/ LoadData
    \/ UpdateIncomeLedger
    \/ AddExpenseLedger
    \/ SaveChangesLedger
    \/ DeleteExpense
    \/ CalculateNetActual
    \/ UsePreviousMonthTemplate

SpecIncome == Init /\ [][NextIncome]_vars

\* The budget analysis applied to a loaded month: the view holds up to MaxRows
\* rows of the analysis inputs (a row without forecast has the actual 0 or
\* 90), or the three rows of past spending 50, 60, 55.
AnalyzeFields ==
    { r \in [ category : AnalyzeCategories, forecast : AnalyzeForecasts,
              actual : AnalyzeActuals ] :
        r.forecast = 0 => r.actual \in { 0, 90 } }

PastSpendingExample ==
    << [category |-> "Rent", forecast |-> 50, actual |-> 50],
       [category |-> "Rent", forecast |-> 50, actual |-> 60],
       [category |-> "Rent", forecast |-> 50, actual |-> 55] >>

AnalyzeInputs ==
    UNION { [1..n -> AnalyzeFields] : n \in 0..MaxRows } \cup { PastSpendingExample }

InitAnalyze ==
    /\ selected_year = 2024
    /\ selected_month = 12
    /\ year = selected_year
    /\ month_num = selected_month
    /\ \E rows \in AnalyzeInputs :
          current_data = [ i \in 1..Len(rows) |->
                            [ id       |-> i,
                              year     |-> selected_year,
                              month    |-> selected_month,
                              category |-> rows[i].category,
                              forecast |-> rows[i].forecast,
                              actual   |-> rows[i].actual,
                              comments |-> "" ] ]
    /\ all_expenses = current_data
    /\ next_id = Len(all_expenses) + 1
    /\ income \in AnalyzeIncomes
    /\ extra_income = 0
    /\ all_income = << [ year |-> selected_year, month |-> selected_month,
                         income |-> income, extra_income |-> extra_income ] >>
    /\ msg = << >>

NextAnalyze ==
    \/ CalculateNetActual
    \/ AnalyzeNewExpense

SpecAnalyze == InitAnalyze /\ [][NextAnalyze]_vars

(***************************************************************************)
(* Properties                                                              *)
(***************************************************************************)

IsError(m) == Len(m) = 1 /\ m[1].kind = "error"
IsSuccess(m) == m # << >> /\ m[Len(m)].kind = "success"

\* The rows of df whose id is not among the ids of old.
NewIds(old, df) == Ids(df) \ Ids(old)

\* C1: next_id never decreases; every id a step puts into the ledger is at
\* least the next_id before the step and below the next_id after it, hence
\* above every id handed out earlier, deleted or not; in every state the ids
\* of the ledger are pairwise distinct and below next_id.
C1_IdsFreshAndUnique ==
    /\ [](/\ \A i, j \in 1..Len(all_expenses) :
                i # j => all_expenses[i].id # all_expenses[j].id
          /\ \A i \in 1..Len(all_expenses) : all_expenses[i].id < next_id)
    /\ [][/\ next_id' >= next_id
          /\ \A n \in NewIds(all_expenses, all_expenses') :
                n >= next_id /\ n < next_id']_vars

\* C1: ids 1 and 2 were handed out, 2 was deleted, and the next add got 3.
C1_Witness ==
    /\ Ids(all_expenses) = {1, 3}
    /\ next_id = 4
    /\ msg = << Msg("success", "Expense added!") >>

\* C2: every row of the view is a row of the ledger, field for field.
C2_ViewInLedger ==
    \A i \in 1..Len(current_data) :
        \E j \in 1..Len(all_expenses) : all_expenses[j] = current_data[i]

\* C2: a save has just rewritten a row of a view of two rows while the ledger
\* also holds a row of the other month.
C2_Witness ==
    /\ msg = << Msg("success", "Expense updated!") >>
    /\ Len(current_data) = 2
    /\ current_data[1].category # current_data[2].category
    /\ Len(all_expenses) > Len(current_data)

\* What C3 calls a rejected expense form and a rejected income form.
RejectedExpenseForm(f) == f.category = "" \/ f.forecast < 0 \/ f.actual < 0
RejectedIncomeForm(f) == f.income < 0 \/ f.extra_income < 0

\* C3: an add or an edit with an empty category or a negative amount, and an
\* income update with a negative value, shows an error and leaves the ledger,
\* the view, the income table, the session income and next_id as they were.
C3_RejectedChangesNothing ==
    [][ ( \/ \E f \in CoreForms : RejectedExpenseForm(f) /\ AddExpenseH(f)
          \/ \E selected_id \in IdInputs, f \in CoreForms :
                RejectedExpenseForm(f) /\ SaveChangesH(selected_id, f)
          \/ \E f \in CoreIncomeForms : RejectedIncomeForm(f) /\ UpdateIncomeH(f) )
        => ( IsError(msg') /\ UNCHANGED data ) ]_vars

\* C3: an add with a negative amount was rejected while the ledger, the view
\* and the income table hold rows.
C3_Witness ==
    /\ msg = << Msg("error", "Forecast and Actual cannot be negative.") >>
    /\ all_expenses # << >>
    /\ current_data # << >>
    /\ all_income # << >>

\* C4: an add with a non-empty category and amounts >= 0 is always possible
\* (while ids are handed out) and appends one row with the typed category,
\* forecast, actual and comments and the selected year and month, leaving the
\* rows before it as they were, also when the view already holds the category
\* in another case.
C4_AddAppendsOneRow ==
    /\ [](\A f \in UiForms :
            (~RejectedExpenseForm(f) /\ next_id <= MaxId) => ENABLED AddExpenseH(f))
    /\ [][ \A f \in UiForms :
             (~RejectedExpenseForm(f) /\ AddExpenseH(f))
             => /\ Len(all_expenses') = Len(all_expenses) + 1
                /\ SubSeq(all_expenses', 1, Len(all_expenses)) = all_expenses
                /\ LET r == all_expenses'[Len(all_expenses')]
                   IN  /\ r.category = f.category
                       /\ r.forecast = f.forecast
                       /\ r.actual = f.actual
                       /\ r.comments = f.comments
                       /\ r.year = selected_year
                       /\ r.month = selected_month
                /\ IsSuccess(msg') ]_vars

\* C4: an add went through with the warning that the category exists: the
\* selected month holds "Rent" and "rent".
C4_Witness ==
    /\ msg = << Msg("warning", "Category already exists. Proceeding to add."),
                Msg("success", "Expense added!") >>
    /\ \E i, j \in 1..Len(all_expenses) :
          /\ i < j
          /\ j = Len(all_expenses)
          /\ all_expenses[i].year = all_expenses[j].year
          /\ all_expenses[i].month = all_expenses[j].month
          /\ all_expenses[i].category # all_expenses[j].category
          /\ Lower(all_expenses[i].category) = Lower(all_expenses[j].category)

\* C5: a delete of id keeps exactly the rows with another id, in the ledger
\* and in the view, removes at most one row, changes nothing when no row has
\* the id, and reports success; and an id that was handed out and is gone
\* from the ledger is in neither the ledger nor the view after any later step.
C5_DeleteRemovesForGood ==
    [][ /\ \A id \in IdInputs :
              DeleteExpenseH(id)
              => /\ LET Other(r) == r.id # id
                    IN  /\ all_expenses' = SelectSeq(all_expenses, Other)
                        /\ current_data' = SelectSeq(current_data, Other)
                 /\ Len(all_expenses) - Len(all_expenses') <= 1
                 /\ id \notin Ids(all_expenses) => UNCHANGED data
                 /\ IsSuccess(msg')
        /\ \A id \in IdInputs :
              (id < next_id /\ id \notin Ids(all_expenses))
              => (id \notin Ids(all_expenses') /\ id \notin Ids(current_data')) ]_vars

\* C5: ids 1 and 2 were deleted, the last step was a delete, and id 3, handed
\* out since, is in the ledger.
C5_Witness ==
    /\ msg = << Msg("success", "Expense deleted!") >>
    /\ next_id = 4
    /\ Ids(all_expenses) = {3}

\* The month before the selected one, as (year, month).
MonthBeforeSelected ==
    IF selected_month = 1
    THEN << selected_year - 1, 12 >>
    ELSE << selected_year, selected_month - 1 >>

\* C6: with n rows in the month before the selected one, the template button
\* appends n rows to the ledger, the k-th with the category, forecast, actual
\* and comments of the k-th source row, the selected year and month and an id
\* that no row had before and no other new row has, leaves the rows before
\* them as they were and reports n; with n = 0 the ledger, the view and
\* next_id stay as they were.
C6_CopyAppendsFreshRows ==
    [][ UsePreviousMonthTemplate
        => LET InSource(r) == << r.year, r.month >> = MonthBeforeSelected
               src == SelectSeq(all_expenses, InSource)
               n == Len(src)
               old == Len(all_expenses)
           IN  IF n = 0
               THEN /\ UNCHANGED << all_expenses, current_data, next_id >>
                    /\ msg' = << Msg("warning", "No expenses found for previous month.") >>
               ELSE /\ Len(all_expenses') = old + n
                    /\ SubSeq(all_expenses', 1, old) = all_expenses
                    /\ \A k \in 1..n :
                          LET r == all_expenses'[old + k]
                          IN  /\ r.category = src[k].category
                              /\ r.forecast = src[k].forecast
                              /\ r.actual = src[k].actual
                              /\ r.comments = src[k].comments
                              /\ r.year = selected_year
                              /\ r.month = selected_month
                              /\ r.id >= next_id
                              /\ r.id \notin Ids(all_expenses)
                    /\ \A k, l \in 1..n :
                          k # l => all_expenses'[old + k].id # all_expenses'[old + l].id
                    /\ msg' = << CopiedMsg(n) >> ]_vars

\* C6: two rows of December 2024 were copied into January 2025.
C6_Witness ==
    /\ msg = << CopiedMsg(2) >>
    /\ Len(all_expenses) = 4
    /\ selected_year = 2025
    /\ selected_month = 1

\* new is old with the four fields of the row with the id set from f and
\* everything else, the row's id, year and month included, as in old.
EditedAs(old, new, id, f) ==
    /\ Len(new) = Len(old)
    /\ \A i \in 1..Len(old) :
          new[i] = IF old[i].id = id
                   THEN [ id       |-> old[i].id,
                          year     |-> old[i].year,
                          month    |-> old[i].month,
                          category |-> f.category,
                          forecast |-> f.forecast,
                          actual   |-> f.actual,
                          comments |-> f.comments ]
                   ELSE old[i]

\* C7: a save that reports success for an id of the ledger sets the category,
\* forecast, actual and comments of the row with that id, in the ledger and in
\* the view alike, and leaves that row's id, year and month, every other row,
\* the income table and next_id as they were.
C7_EditChangesOneRow ==
    [][ msg' = << Msg("success", "Expense updated!") >>
        => \A id \in Ids(all_expenses), f \in UiForms :
              SaveChangesH(id, f)
              => /\ EditedAs(all_expenses, all_expenses', id, f)
                 /\ EditedAs(current_data, current_data', id, f)
                 /\ UNCHANGED << all_income, next_id >> ]_vars

\* C7: a save has just changed one of two rows of the view; the other row
\* still has the fields it was added with.
C7_Witness ==
    /\ msg = << Msg("success", "Expense updated!") >>
    /\ Len(current_data) = 2
    /\ current_data[1].category = "Rent"
    /\ current_data[1].forecast = 1
    /\ current_data[2].category = "rent"
    /\ current_data[2].forecast = 2
    /\ all_income # << >>

C9_LoadKeepsLedger ==
    [][ LoadData
        => LET InWindow(r) == r.year = year /\ r.month = month_num
           IN  /\ selected_year' = year
               /\ selected_month' = month_num
               /\ current_data' = SelectSeq(all_expenses, InWindow)
               /\ UNCHANGED << all_expenses, all_income, next_id >> ]_vars

\* C9: the selected window was loaded again and shows its rows, while the
\* ledger also holds rows of the other month and the income table a row.
C9_Witness ==
    /\ msg = << >>
    /\ selected_year = year
    /\ selected_month = month_num
    /\ Len(current_data) = 2
    /\ Len(all_expenses) = 4
    /\ all_income # << >>

\* C10: no two rows of the income table have the same year and month; an
\* income update for a selected month that has a row sets the income and extra
\* income of that row where it stands, otherwise appends one row, and leaves
\* every row of another month as it was.
C10_IncomeUpsert ==
    /\ [](\A i, j \in 1..Len(all_income) :
            i # j => << all_income[i].year, all_income[i].month >>
                     # << all_income[j].year, all_income[j].month >>)
    /\ [][ \A f \in LedgerIncomeForms :
             UpdateIncomeH(f)
             => LET Selected(r) == r.year = selected_year /\ r.month = selected_month
                    rec == [ year |-> selected_year, month |-> selected_month,
                             income |-> f.income, extra_income |-> f.extra_income ]
                IN  IF \E i \in 1..Len(all_income) : Selected(all_income[i])
                    THEN /\ Len(all_income') = Len(all_income)
                         /\ \A i \in 1..Len(all_income) :
                               all_income'[i] = IF Selected(all_income[i])
                                                THEN rec
                                                ELSE all_income[i]
                    ELSE all_income' = Append(all_income, rec) ]_vars

\* C10: both months have an income row, with different values, and the last
\* step was an income update.
C10_Witness ==
    /\ msg = << Msg("success", "Income updated!") >>
    /\ Len(all_income) = 2
    /\ all_income[1].income = 7
    /\ all_income[2].income = 5

\* C11: load_income gives (0, 0) for every month at the start, and a step
\* changes what it gives for a month only when the step is an accepted income
\* update while that month is selected: it then gives the pair of that update.
\* So it gives (0, 0) for a month never set, and else the pair last set for
\* that month, whatever was set for the other months in between.
C11_LoadIncomeGivesLastSaved ==
    /\ \A w \in Windows : load_income(w[1], w[2]) = << 0, 0 >>
    /\ [][ \A w \in Windows :
             load_income(w[1], w[2])'
             = IF /\ w = << selected_year, selected_month >>
                  /\ \E f \in LedgerIncomeForms : UpdateIncomeH(f)
               THEN << income', extra_income' >>
               ELSE load_income(w[1], w[2]) ]_vars
    /\ [][ \A f \in LedgerIncomeForms :
             UpdateIncomeH(f) => << income', extra_income' >> = << f.income, f.extra_income >> ]_vars

\* C11: the selected month was set before the other month and has now been
\* set again, to another pair than the other month's.
C11_Witness ==
    /\ msg = << Msg("success", "Income updated!") >>
    /\ Len(all_income) = 2
    /\ all_income[1].year = selected_year
    /\ all_income[1].month = selected_month
    /\ load_income(selected_year, selected_month) = << 7, 0 >>
    /\ \E w \in Windows : load_income(w[1], w[2]) = << 5, 1 >>

\* The insights of the last run, when it showed any.
InsightsShown == msg # << >> /\ msg[Len(msg)].kind = "info"
Insights == msg[Len(msg)].lines
ShownScore == Insights[Len(Insights)].score

\* The fields of the rows of the view that the analysis reads.
ViewFields ==
    [ i \in 1..Len(current_data) |->
        [ category |-> current_data[i].category,
          forecast |-> current_data[i].forecast,
          actual   |-> current_data[i].actual ] ]

TotalIncome == income + extra_income
TotalActual == SumActual(current_data)
TotalForecast == SumForecast(current_data)

\* (total_income - sum(actual)) / total_income, or 0 without income, compared
\* with 1/10 and 2/10 in exact arithmetic.
SavingsBelowTenth == IF TotalIncome > 0 THEN 10 * TotalActual > 9 * TotalIncome ELSE TRUE
SavingsAboveFifth == IF TotalIncome > 0 THEN 10 * TotalActual < 8 * TotalIncome ELSE FALSE

\* C12: the score shown for the view and the income is 100, less 20 when the
\* actual total exceeds the forecast total, then less 30 when the savings ratio
\* is below 0.1 or else plus 10 when it is above 0.2, clamped to 0..100; a
\* ratio of exactly 0.1 or 0.2 changes nothing. One row of forecast 100 and
\* actual 150 with income 200 scores 90; forecast 100, actual 80, income 100
\* scores 100.
C12_ScoreFormula ==
    InsightsShown
    => LET start == IF TotalActual > TotalForecast THEN 80 ELSE 100
           sum == IF SavingsBelowTenth THEN start - 30
                  ELSE IF SavingsAboveFifth THEN start + 10
                  ELSE start
           clamped == IF sum < 0 THEN 0 ELSE IF sum > 100 THEN 100 ELSE sum
       IN  /\ ShownScore = clamped
           /\ 10 * (TotalIncome - TotalActual) = TotalIncome /\ TotalIncome > 0
              => ShownScore = start
           /\ 10 * (TotalIncome - TotalActual) = 2 * TotalIncome /\ TotalIncome > 0
              => ShownScore = start
           /\ ViewFields = << [category |-> "Rent", forecast |-> 100, actual |-> 150] >>
                 /\ TotalIncome = 200
              => ShownScore = 90
           /\ ViewFields = << [category |-> "Rent", forecast |-> 100, actual |-> 80] >>
                 /\ TotalIncome = 100
              => ShownScore = 100

\* C12: the score was shown for a month that is overspent with a savings
\* ratio of exactly 0.1.
C12_Witness ==
    /\ InsightsShown
    /\ TotalIncome = 100
    /\ TotalActual = 90
    /\ TotalForecast = 0
    /\ ShownScore = 80

\* The suggestions among the insights shown.
IsSuggestion(line) == line.kind \in { "overspending", "under_budget" }
ShownSuggestions == SelectSeq(Insights, IsSuggestion)

\* C13: the suggestions shown are, in the order of the rows, one overspending
\* line naming the category for each row with actual > 1.2 * forecast and one
\* under-budget line naming it for each row with actual < 0.8 * forecast; a
\* row with 0.8 * forecast <= actual <= 1.2 * forecast has no line, also when
\* forecast = actual = 0.
C13_SuggestionPerRow ==
    InsightsShown
    => LET Over(r) == 10 * r.actual > 12 * r.forecast
           Under(r) == 10 * r.actual < 8 * r.forecast
           Outside(r) == Over(r) \/ Under(r)
           rows == SelectSeq(current_data, Outside)
       IN  /\ Len(ShownSuggestions) = Len(rows)
           /\ \A i \in 1..Len(rows) :
                 ShownSuggestions[i]
                 = [ kind |-> IF Over(rows[i]) THEN "overspending" ELSE "under_budget",
                     category |-> rows[i].category,
                     score |-> 0 ]
           /\ \A i \in 1..Len(current_data) :
                 /\ 10 * current_data[i].actual >= 8 * current_data[i].forecast
                 /\ 10 * current_data[i].actual <= 12 * current_data[i].forecast
                 => \A j \in 1..Len(rows) : rows[j] # current_data[i]

\* C13: insights shown for an under-budget row followed by an overspent row
\* of another category.
C13_Witness ==
    /\ InsightsShown
    /\ Len(current_data) = 2
    /\ Len(Insights) = 3
    /\ Insights[1] = UnderBudgetLine("Rent")
    /\ Insights[2] = OverspendingLine("food")

\* The rows of the view that have the category of c, whatever the case of
\* the letters.
SameCategoryRows(c) ==
    LET Same(r) == Lower(r.category) = Lower(c.category)
    IN  SelectSeq(current_data, Same)

IsAnomaly(line) == line.kind = "anomaly"

\* C14: the analysis of a new expense reports an anomaly, naming the
\* category of the new expense, exactly when some row has its category apart
\* from case and its actual is above 1.5 times the mean of the actuals of those
\* rows; with no such row nothing is reported. With past actuals 50, 60, 55 a
\* new expense of 90 is reported and one of 80 is not.
C14_AnomalyIffAboveMean ==
    [][ \A c \in Candidates :
          AnalyzeNewExpenseH(c)
          => LET past == SameCategoryRows(c)
                 found == SelectSeq(Insights', IsAnomaly)
                 expected == /\ Len(past) >= 1
                             /\ 2 * Len(past) * c.actual > 3 * SumActual(past)
             IN  /\ found = IF expected THEN << AnomalyLine(c.category) >> ELSE << >>
                 /\ past = << >> => found = << >>
                 /\ ViewFields = PastSpendingExample /\ c.category = "rent"
                    => /\ c.actual = 90 => found # << >>
                       /\ c.actual = 80 => found = << >> ]_vars

\* C14: a new expense was reported against the past actuals 50, 60, 55
\* of rows whose category differs from its category in case.
C14_Witness ==
    /\ InsightsShown
    /\ ViewFields = PastSpendingExample
    /\ Insights[1] = AnomalyLine("rent")

\* C15: the insights of an analysis are the suggestions for the rows in
\* order, then the anomaly when a new expense is given and is unusual, then
\* one line with the score; so they are never empty and end with the score
\* line. The analysis changes neither the ledger, the view, the income nor
\* the id counter.
C15_InsightsLayout ==
    [][ LET L == Insights'
            s == suggest_budget_adjustments(current_data)
            last == ScoreLine(calculate_budget_score(current_data, TotalIncome))
        IN  /\ \A c \in Candidates :
                 AnalyzeNewExpenseH(c)
                 => LET a == detect_unusual_spending(current_data, c)
                    IN  /\ Len(L) = Len(s) + Len(a) + 1
                        /\ SubSeq(L, 1, Len(s)) = s
                        /\ SubSeq(L, Len(s) + 1, Len(s) + Len(a)) = a
                        /\ L[Len(L)] = last
            /\ CalculateNetActual /\ current_data # << >>
               => /\ Len(L) = Len(s) + 1
                  /\ SubSeq(L, 1, Len(s)) = s
                  /\ L[Len(L)] = last
            /\ CalculateNetActual \/ AnalyzeNewExpense => UNCHANGED data ]_vars

\* C15: insights with a suggestion, then an anomaly, then the score line.
C15_Witness ==
    /\ InsightsShown
    /\ Len(Insights) = 3
    /\ Insights[1].kind = "under_budget"
    /\ Insights[2].kind = "anomaly"
    /\ Insights[3].kind = "score"

\* C20: the score shown is 50, 70, 80, 90 or 100; it is at most 70 when the
\* total income is not positive; and a savings ratio above 0.2 leaves a month
\* that is not overspent at the 100 it has without the bonus, and lifts an
\* overspent month from 80 to 90.
C20_ScoreValues ==
    InsightsShown
    => /\ ShownScore \in { 50, 70, 80, 90, 100 }
       /\ TotalIncome <= 0 => ShownScore <= 70
       /\ SavingsAboveFifth /\ TotalActual <= TotalForecast => ShownScore = 100
       /\ SavingsAboveFifth /\ TotalActual > TotalForecast => ShownScore = 90
       /\ ~SavingsAboveFifth /\ ~SavingsBelowTenth /\ TotalActual <= TotalForecast
          => ShownScore = 100

\* C20: the lowest score was shown, for an overspent month without income.
C20_Witness ==
    /\ InsightsShown
    /\ TotalIncome = 0
    /\ TotalActual > TotalForecast
    /\ ShownScore = 50

\* C16: the view holds, in the order of the ledger, all the rows of the
\* ledger that have the selected year and month.
C16_ViewIsSelectedWindow ==
    current_data = ExpensesFor(all_expenses, selected_year, selected_month)

\* C17: every row of the ledger has a category that is not empty, a forecast
\* >= 0 and an actual >= 0, whatever was added, edited, copied or deleted and
\* whatever was rejected.
C17_LedgerRowsValid ==
    \A i \in 1..Len(all_expenses) :
        /\ all_expenses[i].category # ""
        /\ all_expenses[i].forecast >= 0
        /\ all_expenses[i].actual >= 0

\* C17: an edit was rejected while the ledger holds rows of both months.
C17_Witness ==
    /\ msg = << Msg("error", "Category cannot be empty, and values cannot be negative.") >>
    /\ \E i, j \in 1..Len(all_expenses) : all_expenses[i].month # all_expenses[j].month

\* C18: every row of the view has the selected year and the selected month.
C18_ViewRowsOfSelectedWindow ==
    \A i \in 1..Len(current_data) :
        /\ current_data[i].year = selected_year
        /\ current_data[i].month = selected_month

\* C18: a row was added to the empty view while the sidebar shows the other
\* month, and the ledger holds a row of that other month.
C18_Witness ==
    /\ msg = << Msg("success", "Expense added!") >>
    /\ << year, month_num >> # << selected_year, selected_month >>
    /\ Len(current_data) = 1
    /\ current_data[1] = all_expenses[Len(all_expenses)]
    /\ \E i \in 1..Len(all_expenses) :
          << all_expenses[i].year, all_expenses[i].month >> = << year, month_num >>

\* C19: the income and extra income of the session are those of the row of
\* the income table for the selected year and month, and both 0 when the table
\* has no such row.
C19_SessionIncomeIsStored ==
    LET Selected(r) == r.year = selected_year /\ r.month = selected_month
        rows == SelectSeq(all_income, Selected)
    IN  IF rows = << >>
        THEN income = 0 /\ extra_income = 0
        ELSE \A i \in 1..Len(rows) :
                rows[i].income = income /\ rows[i].extra_income = extra_income

\* C19: a month without an income row was loaded after an income was set for
\* the other month.
C19_Witness ==
    /\ msg = << >>
    /\ Len(all_income) = 1
    /\ all_income[1].income = 7
    /\ << all_income[1].year, all_income[1].month >> # << selected_year, selected_month >>
    /\ income = 0
    /\ extra_income = 0

====
